---- MODULE Spec2Model ----
(***************************************************************************)
(* Model of src/main.py: the Song Search CLI.                              *)
(*                                                                         *)
(* One process runs asyncio.run(main()).  The event loop is modelled by    *)
(* its FIFO queue of ready handles; a task runs from one await to the next *)
(* as one atomic step.  The blocking call chat.sample runs in an executor  *)
(* thread and completes at any time after it was submitted.                *)
(*                                                                         *)
(* Strings typed by the user are sequences of one-character strings, so    *)
(* that str.strip() and the f-string templates are computed, not assumed.  *)
(***************************************************************************)
EXTENDS Integers, Sequences, FiniteSets, TLC

\* ---------------------------------------------------------------- bounds
MaxLen == 1          \* longest line the user types at a prompt
MaxRuns == 2         \* number of times the program is launched in a row

\* ------------------------------------------------------- program constants
StatusWidth == 23    \* " Searching for samples "
GlyphWidth == 1      \* one braille character

ClearWidthShort == StatusWidth - 3

ClearWidth == 50     \* ' ' * 50

braille_chars == <<"b0", "b1", "b2", "b3", "b4", "b5", "b6", "b7", "b8", "b9">>

\* ------------------------------------------------------------------ inputs
Whitespace == {" "}
Chars == {" ", "a"}

RECURSIVE SeqsUpTo(_)
SeqsUpTo(n) ==
    IF n = 0 THEN {<< >>}
    ELSE LET S == SeqsUpTo(n - 1)
         IN  S \cup {Append(s, c) : s \in {t \in S : Len(t) = n - 1}, c \in Chars}

RawInputs == SeqsUpTo(MaxLen)

Responses == {"r1", "r2"}

NoExc == [type |-> "none", msg |-> ""]

\* what chat.sample may raise (network, authentication, ...)
CallExceptions ==
    {[type |-> "TimeoutError", msg |-> "timed out"],
     [type |-> "AuthError", msg |-> "bad api key"]}

\* what the statements after the call (lines 89-98) may raise
BuildExc == [type |-> "TypeError", msg |-> "bad markup"]
PrintExc == [type |-> "RenderError", msg |-> "cannot render"]
TrailingExc == [type |-> "OSError", msg |-> "write failed"]

DisplayFaults == {"none", "build", "print", "trailing"}

\* ------------------------------------------------------------ pure helpers
RECURSIVE LStrip(_)
LStrip(s) ==
    IF s = << >> THEN << >>
    ELSE IF Head(s) \in Whitespace THEN LStrip(Tail(s)) ELSE s

RECURSIVE RStrip(_)
RStrip(s) ==
    IF s = << >> THEN << >>
    ELSE IF s[Len(s)] \in Whitespace THEN RStrip(SubSeq(s, 1, Len(s) - 1)) ELSE s

StripMut(s) == s

\* str.strip()
Strip(s) == RStrip(LStrip(s))

SongPrefix == <<"S", "o", "n", "g", ":", " ">>
ArtistPrefix == <<"A", "r", "t", "i", "s", "t", ":", " ">>
Comma == <<",", " ">>

ComposeMut(song, artist) ==
    IF song = << >> THEN SongPrefix \o song
    ELSE IF artist = << >> THEN ArtistPrefix \o artist
    ELSE SongPrefix \o song \o Comma \o ArtistPrefix \o artist

\* lines 65-69 of search_song
Compose(song, artist) ==
    IF artist = << >> THEN SongPrefix \o song
    ELSE IF song = << >> THEN ArtistPrefix \o artist
    ELSE SongPrefix \o song \o Comma \o ArtistPrefix \o artist

\* str(e)
Str(e) == e.msg

CatchesMut(e) == e.type = "none"

\* except Exception as e: every exception the model raises is an Exception
Catches(e) == e.type # "none"

\* ---------------------------------------------------------------- terminal
EmptyCur == [kind |-> "empty", text |-> "", width |-> 0]
EmptyTerm == [lines |-> << >>, cur |-> EmptyCur]

Frame(i) == [kind |-> "frame", text |-> braille_chars[i + 1],
             width |-> StatusWidth + GlyphWidth]
BlankRun(n) == [kind |-> "blank", text |-> "", width |-> n]

\* console.print(): ends the current line, whatever is on it stays visible
PrintNewline(t) ==
    [lines |-> Append(t.lines,
                      [kind |-> IF t.cur.kind = "empty" THEN "blank" ELSE t.cur.kind,
                       text |-> t.cur.text]),
     cur |-> EmptyCur]

\* console.print(panel): a block of its own
PrintPanel(t, kind, text) ==
    [lines |-> Append(t.lines, [kind |-> kind, text |-> text]), cur |-> EmptyCur]

\* console.print(x, end='\r'): repaint the current line in place
PrintCR(t, l) ==
    [lines |-> t.lines,
     cur |-> IF l.kind = "blank" /\ t.cur.kind = "frame" /\ l.width < t.cur.width
             THEN t.cur
             ELSE l]

\* lines 115-143 of main: header, instructions, the two prompts
Banner ==
    LET t1 == PrintNewline(PrintPanel(EmptyTerm, "welcome", ""))
        t2 == PrintNewline(PrintPanel(t1, "instructions", ""))
    IN  PrintPanel(PrintPanel(t2, "prompt", "song"), "prompt", "artist")

\* ------------------------------------------------------------------- state
VARIABLES
    proc,        \* "loaded" | "running" | "exited"
    run,         \* which launch of the program this is
    exitStatus,  \* "none" | "normal" | "exception"
    typed,       \* what the user typed at the two prompts
    song_name, artist_name, query,
    chat,        \* the conversation: sequence of [role, content]
    events,      \* what search_song did before its first await, in order
    mainPc,      \* "start" | "await_call" | "await_spinner" | "done"
    spinnerPc,   \* "none" | "created" | "sleeping" | "stopped" | "cancelled"
    idx,         \* braille_spinner's frame index
    stop_event,  \* asyncio.Event flag
    callState,   \* "idle" | "pending" | "returned" | "raised"
    response, callExc,
    callCount,   \* chat.sample invocations in this process
    ready,       \* event loop's FIFO of ready handles
    term,        \* the terminal
    clears,      \* times the spinner wrote its line-clear
    nSuccess, nError, \* panels displayed by search_song in this process
    unhandled,   \* exception that left search_song, or NoExc
    totRuns, totCallRaised, totErr, totProp  \* over all launches

procVars == <<proc, run, exitStatus>>
inputVars == <<typed, song_name, artist_name, query, events>>
callVars == <<callState, response, callExc, callCount>>
spinVars == <<spinnerPc, idx, clears>>
showVars == <<nSuccess, nError, unhandled>>
totVars == <<totRuns, totCallRaised, totErr, totProp>>

vars == <<proc, run, exitStatus, typed, song_name, artist_name, query, chat, events,
          mainPc, spinnerPc, idx, stop_event, callState, response, callExc,
          callCount, ready, term, clears, nSuccess, nError, unhandled,
          totRuns, totCallRaised, totErr, totProp>>

SystemPrompt == [role |-> "system", content |-> <<"s", "y", "s">>]

\* module-level state after import: lines 19-44
Loaded ==
    /\ proc = "loaded"
    /\ exitStatus = "none"
    /\ typed = [song |-> << >>, artist |-> << >>]
    /\ song_name = << >>
    /\ artist_name = << >>
    /\ query = << >>
    /\ chat = <<SystemPrompt>>
    /\ events = << >>
    /\ mainPc = "start"
    /\ spinnerPc = "none"
    /\ idx = 0
    /\ stop_event = FALSE
    /\ callState = "idle"
    /\ response = "none"
    /\ callExc = NoExc
    /\ callCount = 0
    /\ ready = << >>
    /\ term = EmptyTerm
    /\ clears = 0
    /\ nSuccess = 0
    /\ nError = 0
    /\ unhandled = NoExc

Init ==
    /\ Loaded
    /\ run = 1
    /\ totRuns = 0
    /\ totCallRaised = 0
    /\ totErr = 0
    /\ totProp = 0

\* ---------------------------------------------------- search_song's displays
HandleExcMut(t, shown, e) ==
    [term |-> t, success |-> shown, error |-> 0, unhandled |-> e]

\* lines 100-109: the except clause of search_song, entered with exception e
\* after `shown` success panels were written
HandleExc(t, shown, e) ==
    IF Catches(e)
    THEN [term |-> PrintNewline(PrintPanel(PrintNewline(t), "error", Str(e))),
          success |-> shown, error |-> 1, unhandled |-> NoExc]
    ELSE [term |-> t, success |-> shown, error |-> 0, unhandled |-> e]

\* lines 88-98: display the response; fault names the statement that raises
Render(t, r, fault) ==
    LET t1 == PrintNewline(t)
        t2 == PrintPanel(t1, "success", r)
    IN  CASE fault = "build" -> HandleExc(t1, 0, BuildExc)
          [] fault = "print" -> HandleExc(t1, 0, PrintExc)
          [] fault = "trailing" -> HandleExc(t2, 1, TrailingExc)
          [] OTHER -> [term |-> PrintNewline(t2), success |-> 1, error |-> 0,
                       unhandled |-> NoExc]

\* search_song returns (or lets an exception out), main returns after it and
\* the main task completes: run_until_complete's done callback is queued
Finish(o) ==
    /\ term' = o.term
    /\ nSuccess' = nSuccess + o.success
    /\ nError' = nError + o.error
    /\ unhandled' = o.unhandled
    /\ mainPc' = "done"
    /\ ready' = Append(Tail(ready), "stop")
    /\ totRuns' = totRuns + 1
    /\ totCallRaised' = totCallRaised + (IF callState = "raised" THEN 1 ELSE 0)
    /\ totErr' = totErr + o.error
    /\ totProp' = totProp + (IF o.unhandled = NoExc THEN 0 ELSE 1)

\* ----------------------------------------------------------------- actions
\* line 160: asyncio.run(main()) creates the loop and schedules the main task
Launch ==
    /\ proc = "loaded"
    /\ proc' = "running"
    /\ ready' = <<"main">>
    /\ UNCHANGED <<run, exitStatus, inputVars, chat, mainPc, spinVars,
                   stop_event, callVars, term, showVars, totVars>>

\* main, lines 112-154, when both fields are empty after strip()
MainEmpty(rs, ra) ==
    /\ proc = "running"
    /\ ready # << >> /\ Head(ready) = "main"
    /\ mainPc = "start"
    /\ Strip(rs) = << >> /\ Strip(ra) = << >>
    /\ typed' = [song |-> rs, artist |-> ra]
    /\ song_name' = Strip(rs)
    /\ artist_name' = Strip(ra)
    /\ term' = PrintNewline(PrintPanel(PrintNewline(Banner), "warning", ""))
    /\ mainPc' = "done"
    /\ ready' = Append(Tail(ready), "stop")
    /\ UNCHANGED <<procVars, query, chat, events, spinVars, stop_event,
                   callVars, showVars, totVars>>

\* the statements of search_song between the query and the first await; each
\* records the conversation as it stands when the statement runs
CreateTask(st) ==
    [chat |-> st.chat,
     events |-> Append(st.events, [op |-> "create_task", conv |-> st.chat])]

\* line 81: chat.append(user(query))
AppendUser(st, q) ==
    LET c == Append(st.chat, [role |-> "user", content |-> q])
    IN  [chat |-> c, events |-> Append(st.events, [op |-> "append", conv |-> c])]

\* line 82: loop.run_in_executor(None, chat.sample)
Submit(st) ==
    [chat |-> st.chat,
     events |-> Append(st.events, [op |-> "sample", conv |-> st.chat])]

PreludeSampleFirst(st, q) == AppendUser(Submit(CreateTask(st)), q)

\* lines 77-82 in program order
Prelude(st, q) == Submit(AppendUser(CreateTask(st), q))

MainSearchEarlyStop(rs, ra) ==
    /\ proc = "running"
    /\ ready # << >> /\ Head(ready) = "main"
    /\ mainPc = "start"
    /\ ~(Strip(rs) = << >> /\ Strip(ra) = << >>)
    /\ typed' = [song |-> rs, artist |-> ra]
    /\ song_name' = Strip(rs)
    /\ artist_name' = Strip(ra)
    /\ query' = Compose(Strip(rs), Strip(ra))
    /\ term' = PrintNewline(Banner)
    /\ stop_event' = TRUE
    /\ spinnerPc' = "created"
    /\ LET s == Prelude([chat |-> chat, events |-> << >>], query')
       IN  chat' = s.chat /\ events' = s.events
    /\ callState' = "pending"
    /\ callCount' = callCount + 1
    /\ mainPc' = "await_call"
    /\ ready' = Append(Tail(ready), "spinner")
    /\ UNCHANGED <<procVars, idx, clears, response, callExc, showVars, totVars>>

\* main, lines 112-156, then search_song, lines 63-82, up to its first await
MainSearch(rs, ra) ==
    /\ proc = "running"
    /\ ready # << >> /\ Head(ready) = "main"
    /\ mainPc = "start"
    /\ ~(Strip(rs) = << >> /\ Strip(ra) = << >>)
    /\ typed' = [song |-> rs, artist |-> ra]
    /\ song_name' = Strip(rs)
    /\ artist_name' = Strip(ra)
    /\ query' = Compose(Strip(rs), Strip(ra))
    /\ term' = PrintNewline(Banner)
    /\ stop_event' = FALSE
    /\ spinnerPc' = "created"
    /\ LET s == Prelude([chat |-> chat, events |-> << >>], query')
       IN  chat' = s.chat /\ events' = s.events
    /\ callState' = "pending"
    /\ callCount' = callCount + 1
    /\ mainPc' = "await_call"
    /\ ready' = Append(Tail(ready), "spinner")
    /\ UNCHANGED <<procVars, idx, clears, response, callExc, showVars, totVars>>

ExecutorReturnFront(r) ==
    /\ proc = "running"
    /\ callState = "pending"
    /\ callState' = "returned"
    /\ response' = r
    /\ ready' = <<"main">> \o ready
    /\ UNCHANGED <<procVars, inputVars, chat, mainPc, spinVars, stop_event,
                   callExc, callCount, term, showVars, totVars>>

\* the executor thread: chat.sample returns r
ExecutorReturn(r) ==
    /\ proc = "running"
    /\ callState = "pending"
    /\ callState' = "returned"
    /\ response' = r
    /\ ready' = Append(ready, "main")
    /\ UNCHANGED <<procVars, inputVars, chat, mainPc, spinVars, stop_event,
                   callExc, callCount, term, showVars, totVars>>

\* the executor thread: chat.sample raises e
ExecutorRaise(e) ==
    /\ proc = "running"
    /\ callState = "pending"
    /\ callState' = "raised"
    /\ callExc' = e
    /\ ready' = Append(ready, "main")
    /\ UNCHANGED <<procVars, inputVars, chat, mainPc, spinVars, stop_event,
                   response, callCount, term, showVars, totVars>>

SpinnerTickNoWrap ==
    /\ proc = "running"
    /\ ready # << >> /\ Head(ready) = "spinner"
    /\ spinnerPc \in {"created", "sleeping"}
    /\ ~stop_event
    /\ LET i == IF spinnerPc = "created" THEN 0 ELSE idx
       IN  /\ term' = PrintCR(term, Frame(i % Len(braille_chars)))
           /\ idx' = i + 1
    /\ spinnerPc' = "sleeping"
    /\ ready' = Tail(ready)
    /\ UNCHANGED <<procVars, inputVars, chat, mainPc, clears, stop_event,
                   callVars, showVars, totVars>>

SpinnerTickIgnoresStop ==
    /\ proc = "running"
    /\ ready # << >> /\ Head(ready) = "spinner"
    /\ spinnerPc \in {"created", "sleeping"}
    /\ LET i == IF spinnerPc = "created" THEN 0 ELSE idx
       IN  /\ term' = PrintCR(term, Frame(i))
           /\ idx' = (i + 1) % Len(braille_chars)
    /\ spinnerPc' = "sleeping"
    /\ ready' = Tail(ready)
    /\ UNCHANGED <<procVars, inputVars, chat, mainPc, clears, stop_event,
                   callVars, showVars, totVars>>

\* braille_spinner, lines 50-57: one pass of the loop body, up to the sleep
SpinnerTick ==
    /\ proc = "running"
    /\ ready # << >> /\ Head(ready) = "spinner"
    /\ spinnerPc \in {"created", "sleeping"}
    /\ ~stop_event
    /\ LET i == IF spinnerPc = "created" THEN 0 ELSE idx
       IN  /\ term' = PrintCR(term, Frame(i))
           /\ idx' = (i + 1) % Len(braille_chars)
    /\ spinnerPc' = "sleeping"
    /\ ready' = Tail(ready)
    /\ UNCHANGED <<procVars, inputVars, chat, mainPc, clears, stop_event,
                   callVars, showVars, totVars>>

SpinnerStopSleepsOn ==
    /\ proc = "running"
    /\ ready # << >> /\ Head(ready) = "spinner"
    /\ spinnerPc \in {"created", "sleeping"}
    /\ stop_event
    /\ spinnerPc' = "sleeping"
    /\ ready' = Tail(ready)
    /\ UNCHANGED <<procVars, inputVars, chat, mainPc, idx, clears, stop_event,
                   callVars, term, showVars, totVars>>

SpinnerStopClears ==
    /\ proc = "running"
    /\ ready # << >> /\ Head(ready) = "spinner"
    /\ spinnerPc \in {"created", "sleeping"}
    /\ stop_event
    /\ stop_event' = FALSE
    /\ term' = PrintCR(term, BlankRun(ClearWidth))
    /\ clears' = clears + 1
    /\ spinnerPc' = "stopped"
    /\ idx' = IF spinnerPc = "created" THEN 0 ELSE idx
    /\ ready' = IF mainPc = "await_spinner"
                THEN Append(Tail(ready), "main")
                ELSE Tail(ready)
    /\ UNCHANGED <<procVars, inputVars, chat, mainPc, callVars,
                   showVars, totVars>>

\* braille_spinner, lines 51 and 58: the loop ends, the line is cleared, the
\* task completes and wakes whoever awaits it
SpinnerStop ==
    /\ proc = "running"
    /\ ready # << >> /\ Head(ready) = "spinner"
    /\ spinnerPc \in {"created", "sleeping"}
    /\ stop_event
    /\ term' = PrintCR(term, BlankRun(ClearWidth))
    /\ clears' = clears + 1
    /\ spinnerPc' = "stopped"
    /\ idx' = IF spinnerPc = "created" THEN 0 ELSE idx
    /\ ready' = IF mainPc = "await_spinner"
                THEN Append(Tail(ready), "main")
                ELSE Tail(ready)
    /\ UNCHANGED <<procVars, inputVars, chat, mainPc, stop_event, callVars,
                   showVars, totVars>>

TimerFireBlocked ==
    /\ proc = "running"
    /\ spinnerPc = "sleeping"
    /\ callState # "pending"
    /\ \A k \in 1..Len(ready) : ready[k] # "spinner"
    /\ ready' = Append(ready, "spinner")
    /\ UNCHANGED <<procVars, inputVars, chat, mainPc, spinVars, stop_event,
                   callVars, term, showVars, totVars>>

\* asyncio.sleep(0.1) elapses: the spinner task is ready again
TimerFire ==
    /\ proc = "running"
    /\ spinnerPc = "sleeping"
    /\ \A k \in 1..Len(ready) : ready[k] # "spinner"
    /\ ready' = Append(ready, "spinner")
    /\ UNCHANGED <<procVars, inputVars, chat, mainPc, spinVars, stop_event,
                   callVars, term, showVars, totVars>>

\* search_song resumes at line 82 with the response: lines 85-86, and lines
\* 88-109 as well when the spinner task is already done
MainStopSpinner(fault) ==
    /\ proc = "running"
    /\ ready # << >> /\ Head(ready) = "main"
    /\ mainPc = "await_call"
    /\ callState = "returned"
    /\ stop_event' = TRUE
    /\ IF spinnerPc = "stopped"
       THEN Finish(Render(term, response, fault))
       ELSE /\ fault = "none"
            /\ mainPc' = "await_spinner"
            /\ ready' = Tail(ready)
            /\ UNCHANGED <<term, showVars, totVars>>
    /\ UNCHANGED <<procVars, inputVars, chat, spinVars, callVars>>

MainCallFailedRetry ==
    /\ proc = "running"
    /\ ready # << >> /\ Head(ready) = "main"
    /\ mainPc = "await_call"
    /\ callState = "raised"
    /\ callState' = "pending"
    /\ callCount' = callCount + 1
    /\ ready' = Tail(ready)
    /\ UNCHANGED <<procVars, inputVars, chat, mainPc, spinVars, stop_event,
                   response, callExc, term, showVars, totVars>>

\* search_song resumes at line 82 with the exception: lines 100-109
MainCallFailed ==
    /\ proc = "running"
    /\ ready # << >> /\ Head(ready) = "main"
    /\ mainPc = "await_call"
    /\ callState = "raised"
    /\ Finish(HandleExc(term, 0, callExc))
    /\ UNCHANGED <<procVars, inputVars, chat, spinVars, stop_event, callVars>>

\* search_song resumes at line 86 when the spinner task is done: lines 88-109
MainShow(fault) ==
    /\ proc = "running"
    /\ ready # << >> /\ Head(ready) = "main"
    /\ mainPc = "await_spinner"
    /\ spinnerPc = "stopped"
    /\ Finish(Render(term, response, fault))
    /\ UNCHANGED <<procVars, inputVars, chat, spinVars, stop_event, callVars>>

\* asyncio.run after the main task is done: the loop stops, every task still
\* pending is cancelled (CancelledError at its await, nothing more is
\* printed), the loop is closed and the process ends
Shutdown ==
    /\ proc = "running"
    /\ ready # << >> /\ Head(ready) = "stop"
    /\ spinnerPc' = IF spinnerPc \in {"created", "sleeping"}
                    THEN "cancelled" ELSE spinnerPc
    /\ ready' = << >>
    /\ proc' = "exited"
    /\ exitStatus' = IF unhandled = NoExc THEN "normal" ELSE "exception"
    /\ UNCHANGED <<run, inputVars, chat, mainPc, idx, clears, stop_event,
                   callVars, term, showVars, totVars>>

\* the program is started again: a fresh interpreter, lines 19-44
NewProcess ==
    /\ proc = "exited"
    /\ run < MaxRuns
    /\ run' = run + 1
    /\ proc' = "loaded"
    /\ exitStatus' = "none"
    /\ typed' = [song |-> << >>, artist |-> << >>]
    /\ song_name' = << >>
    /\ artist_name' = << >>
    /\ query' = << >>
    /\ chat' = <<SystemPrompt>>
    /\ events' = << >>
    /\ mainPc' = "start"
    /\ spinnerPc' = "none"
    /\ idx' = 0
    /\ stop_event' = FALSE
    /\ callState' = "idle"
    /\ response' = "none"
    /\ callExc' = NoExc
    /\ callCount' = 0
    /\ ready' = << >>
    /\ term' = EmptyTerm
    /\ clears' = 0
    /\ nSuccess' = 0
    /\ nError' = 0
    /\ unhandled' = NoExc
    /\ UNCHANGED totVars

Next ==
    \/ Launch
    \/ \E rs \in RawInputs, ra \in RawInputs : MainEmpty(rs, ra)
    \/ \E rs \in RawInputs, ra \in RawInputs : MainSearch(rs, ra)
    \/ \E r \in Responses : ExecutorReturn(r)
    \/ \E e \in CallExceptions : ExecutorRaise(e)
    \/ SpinnerTick
    \/ SpinnerStop
    \/ TimerFire
    \/ \E f \in DisplayFaults : MainStopSpinner(f)
    \/ MainCallFailed
    \/ \E f \in DisplayFaults : MainShow(f)
    \/ Shutdown
    \/ NewProcess

Spec == Init /\ [][Next]_vars

TypeOK ==
    /\ proc \in {"loaded", "running", "exited"}
    /\ run \in 1..MaxRuns
    /\ exitStatus \in {"none", "normal", "exception"}
    /\ mainPc \in {"start", "await_call", "await_spinner", "done"}
    /\ spinnerPc \in {"none", "created", "sleeping", "stopped", "cancelled"}
    /\ stop_event \in BOOLEAN
    /\ callState \in {"idle", "pending", "returned", "raised"}


\* fairness of the event loop: a ready handle is run, a due timer fires.  No
\* fairness is assumed of the user, nor of the remote call.
FairSpec ==
    /\ Spec
    /\ WF_vars(SpinnerTick)
    /\ WF_vars(SpinnerStop)
    /\ WF_vars(TimerFire)
    /\ WF_vars(\E f \in DisplayFaults : MainStopSpinner(f))
    /\ WF_vars(MainCallFailed)
    /\ WF_vars(\E f \in DisplayFaults : MainShow(f))
    /\ WF_vars(Shutdown)

\* ------------------------------------------------------------- properties
Searched == callCount > 0
Returned == mainPc = "done" /\ Searched
CallOver == callState \in {"returned", "raised"}
PanelLines(kind) == {k \in DOMAIN term.lines : term.lines[k].kind = kind}
AllBlank(s) == \A k \in DOMAIN s : s[k] \in Whitespace

\* C1: whenever search_song has returned, on the success path and on the
\* failure path alike, the stop signal is set and the spinner task has left
\* its loop and completed.
C1_SpinnerStoppedOnReturn ==
    Returned => stop_event /\ spinnerPc = "stopped"

\* C2: once search_song has displayed a success or an error panel, the
\* spinner has reached Stopped, exactly once, and has written its line-clear.
C2_ClearedBeforeRender ==
    (nSuccess + nError > 0) => spinnerPc = "stopped" /\ clears = 1

\* C3: when chat.sample raised, search_song returns with exactly one error
\* panel, whose text is the message of that exception, and lets no exception
\* out; when every run so far had a raising call, the number of error
\* displays equals the number of runs and nothing was propagated.
C3_FailureCaught ==
    /\ (callState = "raised" /\ mainPc = "done") =>
           /\ nError = 1
           /\ unhandled = NoExc
           /\ Cardinality(PanelLines("error")) = 1
           /\ \A k \in PanelLines("error") : term.lines[k].text = callExc.msg
    /\ (totCallRaised = totRuns) => totErr = totRuns /\ totProp = 0

C3_Witness ==
    /\ totRuns = MaxRuns /\ totCallRaised = MaxRuns /\ totErr = MaxRuns
    /\ proc = "exited" /\ callExc.msg = "timed out"

\* C4: for fields that are not both empty, the composed query is
\* "Song: s, Artist: a", "Artist: a" or "Song: s", chosen by which is empty.
C4_QueryTemplate ==
    (Searched /\ ~(song_name = << >> /\ artist_name = << >>)) =>
        /\ (song_name # << >> /\ artist_name # << >>) =>
               query = <<"S", "o", "n", "g", ":", " ">> \o song_name
                       \o <<",", " ", "A", "r", "t", "i", "s", "t", ":", " ">>
                       \o artist_name
        /\ (song_name = << >> /\ artist_name # << >>) =>
               query = <<"A", "r", "t", "i", "s", "t", ":", " ">> \o artist_name
        /\ (artist_name = << >> /\ song_name # << >>) =>
               query = <<"S", "o", "n", "g", ":", " ">> \o song_name
        /\ chat[Len(chat)].content = query

C4_Witness ==
    /\ Searched
    /\ song_name = << >>
    /\ query = <<"A", "r", "t", "i", "s", "t", ":", " ", "a">>

\* C5: when both typed fields hold nothing but whitespace, main shows the
\* notice and search_song is not entered: no spinner, no user message, no call.
C5_EmptyInputNoSearch ==
    (mainPc # "start" /\ AllBlank(typed.song) /\ AllBlank(typed.artist)) =>
        /\ Cardinality(PanelLines("warning")) = 1
        /\ spinnerPc = "none"
        /\ Len(chat) = 1
        /\ callState = "idle" /\ callCount = 0
        /\ nSuccess = 0 /\ nError = 0

C5_Witness ==
    /\ proc = "exited"
    /\ typed.song = <<" ">> /\ typed.artist = << >>
    /\ PanelLines("warning") # {}

\* C6: within one process chat.sample is invoked at most once, exactly once
\* as soon as main has read a non-empty field, and not again after it failed.
C6_CallOnce ==
    /\ callCount <= 1
    /\ (mainPc # "start" /\ (song_name # << >> \/ artist_name # << >>)) =>
           callCount = 1
    /\ (proc = "exited" /\ callCount = 1) => CallOver

C6_Witness ==
    proc = "exited" /\ callState = "raised" /\ callCount = 1

\* C7: every completed run of search_song has displayed exactly one panel,
\* the success panel or the error panel, also when a statement after the
\* call raised.
C7_ExactlyOneDisplay ==
    Returned => nSuccess + nError = 1

\* C8: the frame index stays within 0..9, is 0 before the first tick, and
\* the frame on the status line is always the one just before the index,
\* modulo 10.
C8_FrameIndex ==
    /\ idx \in 0..9
    /\ spinnerPc \in {"none", "created"} => idx = 0
    /\ (spinnerPc = "sleeping" /\ term.cur.kind = "frame") =>
           term.cur.text = braille_chars[((idx + 9) % 10) + 1]

C8_Witness ==
    spinnerPc = "sleeping" /\ idx = 0 /\ term.cur.text = "b9" /\ ~stop_event

\* C9: whenever the stop signal is set, the blocking call is over.
C9_StopAfterCall ==
    stop_event => CallOver

C9_Witness ==
    stop_event /\ callState = "returned" /\ spinnerPc = "sleeping"

\* C10: once the call has completed, by return or by raise, the process
\* eventually exits normally with a result or an error displayed.
C10_NormalExit ==
    CallOver ~> (proc = "exited" /\ exitStatus = "normal" /\ CallOver
                 /\ nSuccess + nError >= 1)

C10_Witness ==
    proc = "exited" /\ exitStatus = "normal" /\ callState = "raised" /\ nError = 1

\* C11: the spinner task is never ended by cancellation: it leaves its loop
\* only by seeing the stop signal set.
C11_NeverCancelled ==
    spinnerPc # "cancelled"

\* C12: while the call is pending the spinner is not starved: for as long as
\* the call stays pending, the spinner goes on rendering frames.
C12_NotStarved ==
    <>[](callState = "pending") => []<><<SpinnerTick>>_vars

C12_Witness ==
    callState = "pending" /\ ~stop_event /\ spinnerPc = "sleeping" /\ idx = 5

\* the loop runs the spinner task's handle at the head of the queue
SpinnerRuns ==
    /\ ready # << >> /\ Head(ready) = "spinner"
    /\ ready' \in {Tail(ready), Append(Tail(ready), "main")}

\* C13: once the stop signal is set, the first wake-up of the spinner is its
\* last: it clears the line and finishes; and that wake-up does come.
C13_StopWithinOneWake ==
    /\ [][(stop_event /\ SpinnerRuns) =>
             (spinnerPc' = "stopped" /\ clears' = clears + 1
              /\ term'.cur.kind = "blank")]_vars
    /\ (stop_event /\ spinnerPc = "sleeping") ~> (spinnerPc = "stopped")

C13_Witness ==
    /\ stop_event /\ spinnerPc = "stopped" /\ clears = 1
    /\ mainPc = "await_spinner" /\ ready = <<"main">>

\* C14: the stop signal is unset when the event is created, is set only by
\* search_song resuming from the call, never by a step of the spinner, and
\* once set it stays set for the rest of the process.
C14_StopMonotonic ==
    [][/\ (stop_event /\ ~stop_event') => (proc = "exited" /\ proc' = "loaded")
       /\ (~stop_event /\ stop_event') =>
              /\ ready # << >> /\ Head(ready) = "main"
              /\ mainPc = "await_call" /\ mainPc' # "await_call"
              /\ UNCHANGED spinVars
       /\ (spinnerPc = "none" /\ spinnerPc' = "created") => ~stop_event'
       /\ SpinnerRuns => stop_event' = stop_event]_vars

C14_Witness ==
    stop_event /\ proc = "exited" /\ nSuccess = 1 /\ nError = 0

\* C15: when the spinner has stopped, the status line holds a run of blanks at
\* least as wide as a rendered line (status text plus one glyph), and no
\* frame is left on the terminal.
C15_LineCleared ==
    spinnerPc = "stopped" =>
        /\ PanelLines("frame") = {}
        /\ term.cur.kind # "frame"
        /\ term.cur.kind # "empty" =>
               /\ term.cur.kind = "blank"
               /\ term.cur.width >= StatusWidth + GlyphWidth

C15_Witness ==
    /\ spinnerPc = "stopped" /\ idx = 3
    /\ term.cur = [kind |-> "blank", text |-> "", width |-> 50]

\* a write that repaints the current line in place (end='\r')
InPlaceWrite == term'.lines = term.lines /\ term'.cur # term.cur

\* C16: a frame is only ever painted while the stop signal is unset; once it
\* is set, the only in-place write is the one blank line-clear.
C16_NoFrameAfterStop ==
    [][/\ (InPlaceWrite /\ term'.cur.kind = "frame") =>
              (~stop_event /\ ~stop_event')
       /\ (InPlaceWrite /\ stop_event) =>
              (term'.cur.kind = "blank" /\ clears = 0 /\ clears' = 1)]_vars

C16_Witness ==
    /\ stop_event /\ spinnerPc = "stopped" /\ clears = 1 /\ idx = 1
    /\ term.cur.kind = "blank" /\ mainPc = "await_spinner"

\* C17: at the step that sets the stop signal the spinner task has already
\* run: it is suspended at its sleep and its frame is on the status line.
C17_SpinnerRanBeforeStop ==
    [][(~stop_event /\ stop_event') =>
           /\ callState = "returned"
           /\ spinnerPc = "sleeping"
           /\ term.cur.kind = "frame"]_vars

C17_Witness ==
    /\ stop_event /\ spinnerPc = "sleeping" /\ mainPc = "await_spinner"
    /\ idx = 1 /\ term.cur.text = "b0"

EventsOf(op) == {k \in DOMAIN events : events[k].op = op}
UserMessages == {k \in DOMAIN chat : chat[k].role = "user"}

\* C18: a run of search_song appends the composed query to the conversation
\* exactly once, after it created the spinner task and before it issued the
\* call, and the call is issued on a conversation that ends with that query;
\* without a search nothing is appended and nothing is issued.
C18_QueryAppendedBeforeCall ==
    /\ Searched =>
           /\ Cardinality(UserMessages) = 1
           /\ \A k \in UserMessages : chat[k].content = query
           /\ Cardinality(EventsOf("append")) = 1
           /\ Cardinality(EventsOf("sample")) = 1
           /\ \A c \in EventsOf("create_task"), a \in EventsOf("append"),
                 x \in EventsOf("sample") : c < a /\ a < x
           /\ EventsOf("create_task") # {}
           /\ \A x \in EventsOf("sample") :
                  events[x].conv[Len(events[x].conv)] =
                      [role |-> "user", content |-> query]
    /\ ~Searched => (UserMessages = {} /\ events = << >>)

C18_Witness ==
    /\ callState = "returned" /\ Len(chat) = 2
    /\ query = <<"S", "o", "n", "g", ":", " ", "a">>
    /\ Len(events) = 3

====
